---------------------------- MODULE Spec2Model ----------------------------
(***************************************************************************)
(* Intel PCH thermal sensor driver (kernel/dev/thermal/intel_pch_thermal/  *)
(* thermal.cpp): the claim / startup / cleanup / release state machine of  *)
(* the singleton g_pch_thermal_context, the three hardware registers it    *)
(* writes (tsel, ctt, tsc) and the bus resources it acquires.              *)
(*                                                                         *)
(* One action per statement group of the source; the bus framework issues  *)
(* probe / startup / shutdown / release one at a time (pc = "idle"), and   *)
(* startup, shutdown and release only for a device whose driver_ctx is the *)
(* context (the DEBUG_ASSERTs of lines 76, 161 and 167).  The interrupt    *)
(* handler may run between any two steps once it is registered: the code  *)
(* never unregisters it.                                                   *)
(*                                                                         *)
(* A failed DEBUG_ASSERT on regs or bar_info (lines 75, 85, 168) is a      *)
(* kernel panic: pc = "fault", from which nothing runs.                    *)
(*                                                                         *)
(* The bus framework, the VMM and pch_thermal.h are not part of the file:  *)
(* a call into them is modelled by the resource it grants or takes back    *)
(* (irq_mode, irq_handler, irq_unmasked, mmio, mapped) and by a status     *)
(* drawn from Statuses where the source tests one.                         *)
(***************************************************************************)
EXTENDS Integers, Sequences, FiniteSets, TLC

(***************************************************************************)
(* Identities (thermal.cpp:16-18)                                          *)
(***************************************************************************)
INTEL_VID == 32902
\* 0x8086

intel_dids == <<14898, 40100>>
\* { 0x3a32, 0x9ca4 }

\* The vendor ids and device ids the bus framework may present to probe:
\* the supported ones and one unsupported of each.
VendorIds == {INTEL_VID, 4130}
DeviceIds == {intel_dids[1], intel_dids[2], 14899}
Devices == [vendor_id : VendorIds, device_id : DeviceIds]

(***************************************************************************)
(* Fixed-width arithmetic.  A uint64_t is four 16-bit limbs, least         *)
(* significant first.                                                      *)
(***************************************************************************)
Limb == 65536

U64Add(a, b) ==
    LET s1 == a[1] + b[1]
        s2 == a[2] + b[2] + (s1 \div Limb)
        s3 == a[3] + b[3] + (s2 \div Limb)
        s4 == a[4] + b[4] + (s3 \div Limb)
    IN  <<s1 % Limb, s2 % Limb, s3 % Limb, s4 % Limb>>

U64Small(n) == <<n, 0, 0, 0>>

PAGE_SIZE == 4096

\* a & ~(PAGE_SIZE - 1): PAGE_SIZE is a power of two below 2^16, so only the
\* lowest limb has bits to clear.
U64AndNotPageMask(a) == <<a[1] - (a[1] % PAGE_SIZE), a[2], a[3], a[4]>>

\* #define ROUNDUP(a, b) (((a) + ((b)-1)) & ~((b)-1)), in uint64_t
ROUNDUP(a) == U64AndNotPageMask(U64Add(a, U64Small(PAGE_SIZE - 1)))

\* v > mxtl::numeric_limits<T>::max() for an unsigned T of `bits` bits
ExceedsMax(v, bits) ==
    IF bits = 64 THEN FALSE ELSE v[3] # 0 \/ v[4] # 0

(***************************************************************************)
(* Threshold codec (pch_thermal.h): the PCH's half-degree encoding with a  *)
(* -50 degree offset, on int16_t; C division truncates toward zero.        *)
(***************************************************************************)
CDiv(a, b) == IF a >= 0 THEN a \div b ELSE -((-a) \div b)

decode_temp(raw) == CDiv(raw, 2) - 50

\* Mutant: the encoding without its half-degree scale.
encode_temp_unscaled(t) == t + 50

encode_temp(temp) == (temp + 50) * 2

\* ctx->regs->ctt & 0x1ff
CttField(v) == v % 512

(***************************************************************************)
(* State                                                                   *)
(***************************************************************************)
VARIABLES
    device_claimed,  \* g_pch_thermal_context.device_claimed
    aspace,          \* g_pch_thermal_context.aspace: "NULL" | "kernel_aspace"
    regs,            \* g_pch_thermal_context.regs:   "NULL" | "vaddr"
    tsel, ctt, tsc,  \* the hardware registers behind regs
    driver_ctx,      \* the devices whose driver_ctx is &g_pch_thermal_context
    irq_mode,        \* bus-level IRQ mode of the device: "DISABLED" | "LEGACY"
    irq_handler,     \* a handler is registered for line 0
    irq_unmasked,    \* line 0 is unmasked
    mmio,            \* MMIO decode enabled on the device
    mapped,          \* number of outstanding mappings of the register window
    arch_bits,       \* width of paddr_t and size_t on this build: 32 | 64
    pc,              \* position of the one framework call in progress
    caller,          \* who runs pch_thermal_cleanup: "startup" | "shutdown"
    pci_device,      \* the pci_device argument of the call in progress
    status,          \* startup's local status
    bar_info,        \* startup's local bar_info
    size,            \* startup's local size
    current_ctt,     \* startup's local current_ctt
    ret,             \* the last value returned to the framework
    td_prev,         \* the last completed call ran cleanup, nothing ran since
    irq_ret,         \* what the handler returned, if it was the last step
    life,            \* progress through probe-startup-shutdown-release-probe
    life_dev,        \* the device that lifecycle is about
    fw_state,        \* what the framework did last with the claimed device
    temp,            \* codec run: the degrees handed to encode_temp
    raw,             \* codec run: <<encode_temp's result>>, <<>> before it
    back             \* codec run: <<decode_temp of raw>>, <<>> before it

vars == <<device_claimed, aspace, regs, tsel, ctt, tsc, driver_ctx, irq_mode,
          irq_handler, irq_unmasked, mmio, mapped, arch_bits, pc, caller,
          pci_device, status, bar_info, size, current_ctt, ret, td_prev, irq_ret, life, life_dev, fw_state,
          temp, raw, back>>

ctx_vars == <<device_claimed, aspace, regs>>
hw_vars == <<tsel, ctt, tsc>>
bus_vars == <<irq_mode, irq_handler, irq_unmasked, mmio, mapped>>
local_vars == <<status, bar_info, size, current_ctt, pci_device>>

codec_vars == <<temp, raw, back>>
ghost_vars == <<ret, td_prev, life, life_dev, fw_state, codec_vars>>

(***************************************************************************)
(* Inputs                                                                  *)
(***************************************************************************)
NoDev == [vendor_id |-> 0, device_id |-> 0]
NoRet == [fn |-> "none", dev |-> NoDev, val |-> "none"]
NoBar == [bus_addr |-> U64Small(0), size |-> U64Small(0), present |-> FALSE]

\* bus addresses: 0xFED08000 and 0x1FED08000
AddrLow == <<32768, 65232, 0, 0>>
AddrHigh == <<32768, 65232, 1, 0>>

\* BAR sizes: 0, 0x100, 0x1001, 0xFFFFF001 and 0xFFFFFFFFFFFFF001
SizeZero == <<0, 0, 0, 0>>
SizeSmall == <<256, 0, 0, 0>>
SizeOdd == <<4097, 0, 0, 0>>
SizeBig == <<61441, 65535, 0, 0>>
SizeHuge == <<61441, 65535, 65535, 65535>>

Bar(a, s) == [bus_addr |-> a, size |-> s, present |-> TRUE]

\* What pcie_get_bar_info(*pci_device, 0) may return: NULL (NoBar), a BAR
\* that was never assigned an address, an assigned BAR of size zero and
\* assigned BARs of several sizes.
BarInfos ==
    {NoBar, Bar(U64Small(0), SizeSmall), Bar(AddrLow, SizeZero),
     Bar(AddrLow, SizeSmall), Bar(AddrLow, SizeOdd), Bar(AddrLow, SizeBig),
     Bar(AddrLow, SizeHuge), Bar(AddrHigh, SizeSmall)}

\* Statuses an external call may fail with.
ExternalErrors == {"ERR_NOT_SUPPORTED", "ERR_NO_MEMORY"}
Statuses == {"NO_ERROR"} \cup ExternalErrors

\* Register contents the firmware may have left: <<tsel, tsc>> pairs with
\* bit 0 clear and set and other bits in use, and ctt values around the
\* 113 degree ceiling (326), at both ends of the 9-bit field and with a bit
\* above the field set.
TselTscInit == {<<0, 0>>, <<164, 129>>, <<165, 128>>}
CttInit == {0, 270, 325, 326, 327, 511, 612, 838}
CttAll == 0 .. 1023

InitCommon ==
    /\ device_claimed = FALSE
    /\ aspace = "NULL"
    /\ regs = "NULL"
    /\ \E p \in TselTscInit : tsel = p[1] /\ tsc = p[2]
    /\ driver_ctx = {}
    /\ irq_mode = "DISABLED"
    /\ irq_handler = FALSE
    /\ irq_unmasked = FALSE
    /\ mmio = FALSE
    /\ mapped = 0
    /\ arch_bits \in {32, 64}
    /\ pc = "idle"
    /\ caller = "none"
    /\ pci_device = NoDev
    /\ status = "NO_ERROR"
    /\ bar_info = NoBar
    /\ size = U64Small(0)
    /\ current_ctt = 0
    /\ ret = NoRet
    /\ td_prev = FALSE
    /\ irq_ret = "none"
    /\ life = 0
    /\ life_dev = NoDev
    /\ fw_state = "unbound"

CodecIdle == temp = 0 /\ raw = <<>> /\ back = <<>>

Init == InitCommon /\ ctt \in CttInit /\ CodecIdle

(***************************************************************************)
(* The lifecycle monitor: life counts the calls of the round trip          *)
(* probe granted (1), startup succeeded (2), shutdown ran (3), release ran  *)
(* (4), probe of the same device returned (5), all for life_dev.  A probe  *)
(* that is turned away in between does not interrupt the round trip; once  *)
(* the closing probe is no longer the last call, 5 counts as 1.            *)
(***************************************************************************)
LifeProbe(dev, granted) ==
    IF life = 4 /\ life_dev = dev
    THEN life' = 5 /\ life_dev' = dev
    ELSE IF granted
         THEN life' = 1 /\ life_dev' = dev
         ELSE life' = (IF life = 5 THEN 1 ELSE life) /\ UNCHANGED life_dev

LifeStep(dev, from, to) ==
    IF life \in from /\ life_dev = dev
    THEN life' = to /\ life_dev' = dev
    ELSE life' = 0 /\ life_dev' = NoDev

(***************************************************************************)
(* pch_thermal_probe (thermal.cpp:48-71)                                   *)
(***************************************************************************)
\* lines 55-63: the vendor test and the loop over intel_dids
\* Mutant: the device id is matched without the vendor test of line 56.
ProbeClaimAnyVendor(dev) ==
    \E i \in 1 .. Len(intel_dids) : dev.device_id = intel_dids[i]

ProbeClaim(dev) ==
    /\ dev.vendor_id = INTEL_VID
    /\ \E i \in 1 .. Len(intel_dids) : dev.device_id = intel_dids[i]

\* Mutant: probe without the device_claimed test of lines 51-53.
ProbeNoClaimedTest(dev) ==
    /\ irq_ret' = "none"
    /\ pc = "idle"
    /\ IF ~ProbeClaim(dev)
       THEN /\ ret' = [fn |-> "probe", dev |-> dev, val |-> "NULL"]
            /\ LifeProbe(dev, FALSE)
            /\ UNCHANGED fw_state
            /\ UNCHANGED <<device_claimed, driver_ctx>>
       ELSE /\ device_claimed' = TRUE
            /\ ret' = [fn |-> "probe", dev |-> dev, val |-> "ctx"]
            /\ driver_ctx' = driver_ctx \cup {dev}
            /\ LifeProbe(dev, TRUE)
            /\ fw_state' = "probed"
    /\ td_prev' = FALSE
    /\ UNCHANGED <<aspace, regs, hw_vars, bus_vars, arch_bits, pc, caller,
                   local_vars, codec_vars>>

Probe(dev) ==
    /\ irq_ret' = "none"
    /\ pc = "idle"
    /\ IF device_claimed
       THEN /\ ret' = [fn |-> "probe", dev |-> dev, val |-> "NULL"]
            /\ LifeProbe(dev, FALSE)
            /\ UNCHANGED fw_state
            /\ UNCHANGED <<device_claimed, driver_ctx>>
       ELSE IF ~ProbeClaim(dev)
       THEN /\ ret' = [fn |-> "probe", dev |-> dev, val |-> "NULL"]
            /\ LifeProbe(dev, FALSE)
            /\ UNCHANGED fw_state
            /\ UNCHANGED <<device_claimed, driver_ctx>>
       ELSE /\ device_claimed' = TRUE
            /\ ret' = [fn |-> "probe", dev |-> dev, val |-> "ctx"]
            /\ driver_ctx' = driver_ctx \cup {dev}
            /\ LifeProbe(dev, TRUE)
            /\ fw_state' = "probed"
    /\ td_prev' = FALSE
    /\ UNCHANGED <<aspace, regs, hw_vars, bus_vars, arch_bits, pc, caller,
                   local_vars, codec_vars>>

(***************************************************************************)
(* pch_thermal_release (thermal.cpp:165-170)                               *)
(***************************************************************************)
\* Mutant: release without the store of line 169.
ReleaseKeepsClaim(dev) ==
    /\ irq_ret' = "none"
    /\ pc = "idle"
    /\ dev \in driver_ctx
    /\ IF regs # "NULL"
       THEN /\ pc' = "fault"
            /\ UNCHANGED <<device_claimed, driver_ctx, ret, life, life_dev, fw_state>>
       ELSE /\ UNCHANGED device_claimed
            /\ driver_ctx' = driver_ctx \ {dev}
            /\ ret' = [fn |-> "release", dev |-> dev, val |-> "void"]
            /\ LifeStep(dev, {3}, 4)
            /\ fw_state' = "unbound"
            /\ pc' = "idle"
    /\ td_prev' = FALSE
    /\ UNCHANGED <<aspace, regs, hw_vars, bus_vars, arch_bits, caller,
                   local_vars, codec_vars>>

Release(dev) ==
    /\ irq_ret' = "none"
    /\ pc = "idle"
    /\ dev \in driver_ctx
    /\ IF regs # "NULL"
       THEN /\ pc' = "fault"
            /\ UNCHANGED <<device_claimed, driver_ctx, ret, life, life_dev, fw_state>>
       ELSE /\ device_claimed' = FALSE
            /\ driver_ctx' = driver_ctx \ {dev}
            /\ ret' = [fn |-> "release", dev |-> dev, val |-> "void"]
            /\ LifeStep(dev, {3}, 4)
            /\ fw_state' = "unbound"
            /\ pc' = "idle"
    /\ td_prev' = FALSE
    /\ UNCHANGED <<aspace, regs, hw_vars, bus_vars, arch_bits, caller,
                   local_vars, codec_vars>>

(***************************************************************************)
(* pch_thermal_irq_handler (thermal.cpp:40-46)                             *)
(***************************************************************************)
\* The handler as it would be if it silenced its own line.
IrqHandlerMasks ==
    /\ irq_handler
    /\ pc # "fault"
    /\ irq_ret' = "PCIE_IRQRET_NO_ACTION"
    /\ irq_unmasked' = FALSE
    /\ UNCHANGED <<ctx_vars, hw_vars, driver_ctx, irq_mode, irq_handler, mmio,
                   mapped, arch_bits, pc, caller, local_vars, ret, td_prev,
                   life, life_dev, fw_state, codec_vars>>

\* The code registers the handler (line 95) and never unregisters it, and an
\* invocation may be in flight on another processor while the driver changes
\* the interrupt mode: the handler can run at any point once registered.
IrqHandler ==
    /\ irq_handler
    /\ pc # "fault"
    /\ irq_ret' = "PCIE_IRQRET_NO_ACTION"
    /\ UNCHANGED <<ctx_vars, hw_vars, driver_ctx, bus_vars, arch_bits, pc,
                   caller, local_vars, ret, td_prev, life, life_dev, fw_state,
                   codec_vars>>

(***************************************************************************)
(* Register bit operations and the bus framework's calls                   *)
(***************************************************************************)
\* v | 1 and (uint8_t)(v & ~1u)
SetBit0(v) == IF v % 2 = 0 THEN v + 1 ELSE v
ClearBit0(v) == v - (v % 2)
Bit0(v) == v % 2 = 1

\* pcie_set_irq_mode(pci_device, PCIE_IRQ_MODE_LEGACY, 1) returning NO_ERROR
PcieSetIrqModeLegacy ==
    /\ irq_mode' = "LEGACY"
    /\ UNCHANGED <<irq_handler, irq_unmasked>>

\* pcie_set_irq_mode_disabled(pci_device): no line delivers, none is unmasked
PcieSetIrqModeDisabled ==
    /\ irq_mode' = "DISABLED"
    /\ irq_unmasked' = FALSE
    /\ UNCHANGED irq_handler

\* Interrupt delivery to the handler is possible
Delivery == irq_mode = "LEGACY" /\ irq_handler /\ irq_unmasked

(***************************************************************************)
(* pch_thermal_startup (thermal.cpp:73-157)                                *)
(***************************************************************************)
\* lines 75-85: the entry checks, the address space and the BAR
StartupEntry(dev, bars) ==
    /\ irq_ret' = "none"
    /\ pc = "idle"
    /\ dev \in driver_ctx
    /\ td_prev' = FALSE
    /\ pci_device' = dev
    /\ IF regs # "NULL"
       THEN /\ pc' = "fault"
            /\ UNCHANGED <<aspace, bar_info>>
       ELSE /\ aspace' = "kernel_aspace"
            /\ \E b \in bars :
                 /\ bar_info' = b
                 /\ pc' = IF b.present /\ b.bus_addr # U64Small(0)
                          THEN "s_irq_mode" ELSE "fault"
    /\ UNCHANGED <<device_claimed, regs, hw_vars, driver_ctx, bus_vars,
                   arch_bits, caller, status, size, current_ctt, ret,
                   life, life_dev, fw_state, codec_vars>>

\* lines 88-92
StartupIrqMode ==
    /\ irq_ret' = "none"
    /\ pc = "s_irq_mode"
    /\ \E st \in Statuses :
         /\ status' = st
         /\ IF st = "NO_ERROR"
            THEN PcieSetIrqModeLegacy /\ pc' = "s_register"
            ELSE UNCHANGED <<irq_mode, irq_handler, irq_unmasked>>
                 /\ pc' = "s_finished"
    /\ UNCHANGED <<ctx_vars, hw_vars, driver_ctx, mmio, mapped, arch_bits,
                   caller, pci_device, bar_info, size, current_ctt,
                   ghost_vars>>

\* Mutant: the handler registration with the unmask of line 146 moved up.
StartupRegisterUnmasks ==
    /\ irq_ret' = "none"
    /\ pc = "s_register"
    /\ \E st \in Statuses :
         /\ status' = st
         /\ IF st = "NO_ERROR"
            THEN irq_handler' = TRUE /\ irq_unmasked' = TRUE
                 /\ pc' = "s_validate"
            ELSE UNCHANGED <<irq_handler, irq_unmasked>>
                 /\ pc' = "s_finished"
    /\ UNCHANGED <<ctx_vars, hw_vars, driver_ctx, irq_mode,
                   mmio, mapped, arch_bits, caller, pci_device, bar_info,
                   size, current_ctt, ghost_vars>>

\* Mutant: the handler registration without the goto of line 98.
StartupRegisterNoGoto ==
    /\ irq_ret' = "none"
    /\ pc = "s_register"
    /\ \E st \in Statuses :
         /\ status' = st
         /\ IF st = "NO_ERROR"
            THEN irq_handler' = TRUE /\ pc' = "s_validate"
            ELSE UNCHANGED irq_handler /\ pc' = "s_validate"
    /\ UNCHANGED <<ctx_vars, hw_vars, driver_ctx, irq_mode, irq_unmasked,
                   mmio, mapped, arch_bits, caller, pci_device, bar_info,
                   size, current_ctt, ghost_vars>>

\* lines 95-99
StartupRegister ==
    /\ irq_ret' = "none"
    /\ pc = "s_register"
    /\ \E st \in Statuses :
         /\ status' = st
         /\ IF st = "NO_ERROR"
            THEN irq_handler' = TRUE /\ pc' = "s_validate"
            ELSE UNCHANGED irq_handler /\ pc' = "s_finished"
    /\ UNCHANGED <<ctx_vars, hw_vars, driver_ctx, irq_mode, irq_unmasked,
                   mmio, mapped, arch_bits, caller, pci_device, bar_info,
                   size, current_ctt, ghost_vars>>

\* lines 101-108
StartupValidate ==
    /\ irq_ret' = "none"
    /\ pc = "s_validate"
    /\ size' = ROUNDUP(bar_info.size)
    /\ IF ExceedsMax(bar_info.bus_addr, arch_bits)
          \/ ExceedsMax(size', arch_bits)
       THEN status' = "ERR_INVALID_ARGS" /\ pc' = "s_finished"
       ELSE UNCHANGED status /\ pc' = "s_map"
    /\ UNCHANGED <<ctx_vars, hw_vars, driver_ctx, bus_vars, arch_bits,
                   caller, pci_device, bar_info, current_ctt,
                   ghost_vars>>

\* lines 110-124
StartupMap ==
    /\ irq_ret' = "none"
    /\ pc = "s_map"
    /\ \E st \in Statuses :
         /\ status' = st
         /\ IF st = "NO_ERROR"
            THEN mapped' = mapped + 1 /\ pc' = "s_mmio"
            ELSE UNCHANGED mapped /\ pc' = "s_finished"
    /\ UNCHANGED <<ctx_vars, hw_vars, driver_ctx, irq_mode, irq_handler,
                   irq_unmasked, mmio, arch_bits, caller, pci_device,
                   bar_info, size, current_ctt, ghost_vars>>

\* line 126
StartupMmio ==
    /\ irq_ret' = "none"
    /\ pc = "s_mmio"
    /\ mmio' = TRUE
    /\ pc' = "s_store"
    /\ UNCHANGED <<ctx_vars, hw_vars, driver_ctx, irq_mode, irq_handler,
                   irq_unmasked, mapped, arch_bits, caller, local_vars,
                   ghost_vars>>

\* line 128
StartupStore ==
    /\ irq_ret' = "none"
    /\ pc = "s_store"
    /\ regs' = "vaddr"
    /\ pc' = "s_tsel"
    /\ UNCHANGED <<device_claimed, aspace, hw_vars, driver_ctx, bus_vars,
                   arch_bits, caller, local_vars, ghost_vars>>

\* Mutant: startup without the tsel |= 1 of line 131.
StartupTselNotSet ==
    /\ irq_ret' = "none"
    /\ pc = "s_tsel"
    /\ pc' = "s_ctt"
    /\ UNCHANGED <<ctx_vars, hw_vars, driver_ctx, bus_vars, arch_bits,
                   caller, local_vars, ghost_vars>>

\* line 131
StartupTsel ==
    /\ irq_ret' = "none"
    /\ pc = "s_tsel"
    /\ tsel' = SetBit0(tsel)
    /\ pc' = "s_ctt"
    /\ UNCHANGED <<ctx_vars, ctt, tsc, driver_ctx, bus_vars, arch_bits,
                   caller, local_vars, ghost_vars>>

\* Mutant: the threshold is decoded without the & 0x1ff of line 134.
StartupCttNoMask ==
    /\ irq_ret' = "none"
    /\ pc = "s_ctt"
    /\ current_ctt' = decode_temp(ctt)
    /\ ctt' = IF current_ctt' >= 113 THEN encode_temp(113) ELSE ctt
    /\ pc' = "s_tsc"
    /\ UNCHANGED <<ctx_vars, tsel, tsc, driver_ctx, bus_vars, arch_bits,
                   caller, status, bar_info, size, pci_device, ghost_vars>>

\* Mutant: the threshold is set to 113 without the test of line 135.
StartupCttAlways ==
    /\ irq_ret' = "none"
    /\ pc = "s_ctt"
    /\ current_ctt' = decode_temp(CttField(ctt))
    /\ ctt' = encode_temp(113)
    /\ pc' = "s_tsc"
    /\ UNCHANGED <<ctx_vars, tsel, tsc, driver_ctx, bus_vars, arch_bits,
                   caller, status, bar_info, size, pci_device, ghost_vars>>

\* lines 134-140
StartupCtt ==
    /\ irq_ret' = "none"
    /\ pc = "s_ctt"
    /\ current_ctt' = decode_temp(CttField(ctt))
    /\ ctt' = IF current_ctt' >= 113 THEN encode_temp(113) ELSE ctt
    /\ pc' = "s_tsc"
    /\ UNCHANGED <<ctx_vars, tsel, tsc, driver_ctx, bus_vars, arch_bits,
                   caller, status, bar_info, size, pci_device, ghost_vars>>

\* Mutant: line 143 as an assignment, regs->tsc = 1.
StartupTscAssign ==
    /\ irq_ret' = "none"
    /\ pc = "s_tsc"
    /\ tsc' = 1
    /\ pc' = "s_unmask"
    /\ UNCHANGED <<ctx_vars, tsel, ctt, driver_ctx, bus_vars, arch_bits,
                   caller, local_vars, ghost_vars>>

\* line 143
StartupTsc ==
    /\ irq_ret' = "none"
    /\ pc = "s_tsc"
    /\ tsc' = SetBit0(tsc)
    /\ pc' = "s_unmask"
    /\ UNCHANGED <<ctx_vars, tsel, ctt, driver_ctx, bus_vars, arch_bits,
                   caller, local_vars, ghost_vars>>

\* lines 146-150
StartupUnmask ==
    /\ irq_ret' = "none"
    /\ pc = "s_unmask"
    /\ \E st \in Statuses :
         /\ status' = st
         /\ irq_unmasked' = IF st = "NO_ERROR" THEN TRUE ELSE irq_unmasked
    /\ pc' = "s_finished"
    /\ UNCHANGED <<ctx_vars, hw_vars, driver_ctx, irq_mode, irq_handler,
                   mmio, mapped, arch_bits, caller, pci_device, bar_info,
                   size, current_ctt, ghost_vars>>

\* lines 152-156: finished: on failure run cleanup, else return NO_ERROR
\* Mutant: finished: returns the status without the cleanup of lines 153-154.
StartupFinishedNoCleanup ==
    /\ irq_ret' = "none"
    /\ pc = "s_finished"
    /\ pc' = "idle"
    /\ ret' = [fn |-> "startup", dev |-> pci_device, val |-> status]
    /\ IF status = "NO_ERROR"
       THEN LifeStep(pci_device, {1, 5}, 2)
       ELSE life' = 0 /\ life_dev' = NoDev
    /\ fw_state' = IF status = "NO_ERROR" THEN "started" ELSE "failed"
    /\ pci_device' = NoDev
    /\ bar_info' = NoBar
    /\ current_ctt' = 0
    /\ size' = U64Small(0)
    /\ status' = "NO_ERROR"
    /\ UNCHANGED <<ctx_vars, hw_vars, driver_ctx, bus_vars, arch_bits,
                   caller, td_prev, codec_vars>>

StartupFinished ==
    /\ irq_ret' = "none"
    /\ pc = "s_finished"
    /\ IF status # "NO_ERROR"
       THEN /\ pc' = "c_irq"
            /\ caller' = "startup"
            /\ UNCHANGED <<local_vars, ret, life, life_dev, fw_state>>
       ELSE /\ pc' = "idle"
            /\ ret' = [fn |-> "startup", dev |-> pci_device, val |-> status]
            /\ LifeStep(pci_device, {1, 5}, 2)
            /\ fw_state' = "started"
            /\ pci_device' = NoDev
            /\ bar_info' = NoBar
            /\ current_ctt' = 0
            /\ size' = U64Small(0)
            /\ UNCHANGED <<caller, status>>
    /\ UNCHANGED <<ctx_vars, hw_vars, driver_ctx, bus_vars, arch_bits,
                   td_prev, codec_vars>>

(***************************************************************************)
(* pch_thermal_shutdown (thermal.cpp:159-163)                              *)
(***************************************************************************)
Shutdown(dev) ==
    /\ irq_ret' = "none"
    /\ pc = "idle"
    /\ dev \in driver_ctx
    /\ pc' = "c_irq"
    /\ caller' = "shutdown"
    /\ pci_device' = dev
    /\ UNCHANGED <<ctx_vars, hw_vars, driver_ctx, bus_vars, arch_bits,
                   status, bar_info, size, current_ctt, ghost_vars>>

(***************************************************************************)
(* pch_thermal_cleanup (thermal.cpp:23-38)                                 *)
(***************************************************************************)
\* Mutant: cleanup without the if (ctx->regs) of line 28.
CleanupIrqNoRegsTest ==
    /\ irq_ret' = "none"
    /\ pc = "c_irq"
    /\ PcieSetIrqModeDisabled
    /\ pc' = "c_tsel"
    /\ UNCHANGED <<ctx_vars, hw_vars, driver_ctx, mmio, mapped, arch_bits,
                   caller, local_vars, ghost_vars>>

\* Mutant: cleanup without the pcie_set_irq_mode_disabled of lines 25-26.
CleanupIrqLeftEnabled ==
    /\ irq_ret' = "none"
    /\ pc = "c_irq"
    /\ pc' = IF regs # "NULL" THEN "c_tsel" ELSE "c_aspace"
    /\ UNCHANGED <<ctx_vars, hw_vars, driver_ctx, bus_vars, arch_bits,
                   caller, local_vars, ghost_vars>>

\* lines 25-28: disable IRQs, then test ctx->regs
CleanupIrq ==
    /\ irq_ret' = "none"
    /\ pc = "c_irq"
    /\ PcieSetIrqModeDisabled
    /\ pc' = IF regs # "NULL" THEN "c_tsel" ELSE "c_aspace"
    /\ UNCHANGED <<ctx_vars, hw_vars, driver_ctx, mmio, mapped, arch_bits,
                   caller, local_vars, ghost_vars>>

\* line 30
CleanupTsel ==
    /\ irq_ret' = "none"
    /\ pc = "c_tsel"
    /\ tsel' = ClearBit0(tsel)
    /\ pc' = "c_unmap"
    /\ UNCHANGED <<ctx_vars, ctt, tsc, driver_ctx, bus_vars, arch_bits,
                   caller, local_vars, ghost_vars>>

\* Mutant: teardown without the vmm_free_region of line 33.
CleanupUnmapSkipped ==
    /\ irq_ret' = "none"
    /\ pc = "c_unmap"
    /\ mapped' = mapped
    /\ pc' = "c_aspace"
    /\ UNCHANGED <<ctx_vars, hw_vars, driver_ctx, irq_mode, irq_handler,
                   irq_unmasked, mmio, arch_bits, caller, local_vars,
                   ghost_vars>>

\* line 33
CleanupUnmap ==
    /\ irq_ret' = "none"
    /\ pc = "c_unmap"
    /\ mapped' = IF mapped > 0 THEN mapped - 1 ELSE mapped
    /\ pc' = "c_aspace"
    /\ UNCHANGED <<ctx_vars, hw_vars, driver_ctx, irq_mode, irq_handler,
                   irq_unmasked, mmio, arch_bits, caller, local_vars,
                   ghost_vars>>

\* Mutant: teardown without the ctx->aspace = NULL of line 36.
CleanupAspaceKept ==
    /\ irq_ret' = "none"
    /\ pc = "c_aspace"
    /\ aspace' = aspace
    /\ pc' = "c_regs"
    /\ UNCHANGED <<device_claimed, regs, hw_vars, driver_ctx, bus_vars,
                   arch_bits, caller, local_vars, ghost_vars>>

\* Mutant: cleanup resets the whole context, device_claimed included.
CleanupAspaceClearsClaim ==
    /\ irq_ret' = "none"
    /\ pc = "c_aspace"
    /\ aspace' = "NULL"
    /\ device_claimed' = FALSE
    /\ pc' = "c_regs"
    /\ UNCHANGED <<regs, hw_vars, driver_ctx, bus_vars, arch_bits, caller,
                   local_vars, ghost_vars>>

\* line 36
CleanupAspace ==
    /\ irq_ret' = "none"
    /\ pc = "c_aspace"
    /\ aspace' = "NULL"
    /\ pc' = "c_regs"
    /\ UNCHANGED <<device_claimed, regs, hw_vars, driver_ctx, bus_vars,
                   arch_bits, caller, local_vars, ghost_vars>>

\* line 37, and the caller's return (line 156 or 163)
\* Mutant: teardown without the ctx->regs = NULL of line 37.
CleanupRegsKept ==
    /\ irq_ret' = "none"
    /\ pc = "c_regs"
    /\ regs' = regs
    /\ pc' = "idle"
    /\ ret' = [fn |-> caller, dev |-> pci_device,
               val |-> IF caller = "startup" THEN status ELSE "void"]
    /\ IF caller = "shutdown"
       THEN LifeStep(pci_device, {2}, 3)
       ELSE life' = 0 /\ life_dev' = NoDev
    /\ fw_state' = IF caller = "shutdown" THEN "stopped" ELSE "failed"
    /\ td_prev' = TRUE
    /\ caller' = "none"
    /\ pci_device' = NoDev
    /\ status' = "NO_ERROR"
    /\ bar_info' = NoBar
    /\ current_ctt' = 0
    /\ size' = U64Small(0)
    /\ UNCHANGED <<device_claimed, aspace, hw_vars, driver_ctx, bus_vars,
                   arch_bits, codec_vars>>

\* line 37, and the return to the caller of pch_thermal_cleanup
CleanupRegs ==
    /\ irq_ret' = "none"
    /\ pc = "c_regs"
    /\ regs' = "NULL"
    /\ pc' = "idle"
    /\ ret' = [fn |-> caller, dev |-> pci_device,
               val |-> IF caller = "startup" THEN status ELSE "void"]
    /\ IF caller = "shutdown"
       THEN LifeStep(pci_device, {2}, 3)
       ELSE life' = 0 /\ life_dev' = NoDev
    /\ fw_state' = IF caller = "shutdown" THEN "stopped" ELSE "failed"
    /\ td_prev' = TRUE
    /\ caller' = "none"
    /\ pci_device' = NoDev
    /\ status' = "NO_ERROR"
    /\ bar_info' = NoBar
    /\ current_ctt' = 0
    /\ size' = U64Small(0)
    /\ UNCHANGED <<device_claimed, aspace, hw_vars, driver_ctx, bus_vars,
                   arch_bits, codec_vars>>

(***************************************************************************)
(* The system                                                              *)
(***************************************************************************)
\* One step of the driver with the framework's devices drawn from devs and
\* the BAR descriptions from bars.
NextOn(devs, bars) ==
    \/ \E dev \in devs : Probe(dev)
    \/ \E dev \in devs : StartupEntry(dev, bars)
    \/ StartupIrqMode
    \/ StartupRegister
    \/ StartupValidate
    \/ StartupMap
    \/ StartupMmio
    \/ StartupStore
    \/ StartupTsel
    \/ StartupCtt
    \/ StartupTsc
    \/ StartupUnmask
    \/ StartupFinished
    \/ \E dev \in devs : Shutdown(dev)
    \/ CleanupIrq
    \/ CleanupTsel
    \/ CleanupUnmap
    \/ CleanupAspace
    \/ CleanupRegs
    \/ \E dev \in devs : Release(dev)
    \/ IrqHandler

Next == NextOn(Devices, BarInfos)

Spec == Init /\ [][Next]_vars

(***************************************************************************)
(* The clamp over every stored threshold: the same driver with one device  *)
(* and one BAR on a 64-bit build, every value of the ctt field and of the  *)
(* bit above it.                                                           *)
(***************************************************************************)
ClampDevices == {[vendor_id |-> INTEL_VID, device_id |-> intel_dids[1]]}
ClampBars == {Bar(AddrLow, SizeSmall)}

ClampInit == InitCommon /\ ctt \in CttAll /\ CodecIdle /\ tsel = 0
             /\ arch_bits = 64

ClampNext == NextOn(ClampDevices, ClampBars)

ClampSpec == ClampInit /\ [][ClampNext]_vars

(***************************************************************************)
(* The codec on its own: encode_temp applied to a degree value, then       *)
(* decode_temp applied to the result.                                      *)
(***************************************************************************)
\* The degrees the 9-bit field can hold are decode_temp(0) .. decode_temp(511);
\* the inputs reach CodecMargin degrees past both ends.
CodecMargin == 20

CodecInputs ==
    (decode_temp(0) - CodecMargin) .. (decode_temp(511) + CodecMargin)

CodecInit == InitCommon /\ ctt = 0 /\ tsel = 0 /\ arch_bits = 64
             /\ temp \in CodecInputs /\ raw = <<>> /\ back = <<>>

CodecEncode ==
    /\ raw = <<>>
    /\ raw' = <<encode_temp(temp)>>
    /\ UNCHANGED <<ctx_vars, hw_vars, driver_ctx, bus_vars, arch_bits, pc,
                   caller, local_vars, ret, td_prev, irq_ret, life, life_dev, fw_state,
                   temp, back>>

CodecDecode ==
    /\ raw # <<>>
    /\ back = <<>>
    /\ back' = <<decode_temp(raw[1])>>
    /\ UNCHANGED <<ctx_vars, hw_vars, driver_ctx, bus_vars, arch_bits, pc,
                   caller, local_vars, ret, td_prev, irq_ret, life, life_dev, fw_state,
                   temp, raw>>

CodecNext == CodecEncode \/ CodecDecode

CodecSpec == CodecInit /\ [][CodecNext]_vars

(***************************************************************************)
(* Properties                                                              *)
(***************************************************************************)
\* The identities the driver supports, as the specification lists them:
\* vendor 0x8086 with device 0x3a32 or 0x9ca4.
SupportedIdentity(dev) ==
    dev.vendor_id = 32902 /\ dev.device_id \in {14898, 40100}

CleanupPcs == {"c_irq", "c_tsel", "c_unmap", "c_aspace", "c_regs"}

\* C1 (exclusive claim): a probe of a supported identity on the unclaimed
\* singleton returns the context and sets device_claimed; every probe, of
\* any identity, issued while a granted probe has not been released returns
\* NULL and leaves device_claimed, aspace and regs as they were; at no time
\* do two devices hold the context.
C1_ExclusiveClaim ==
    /\ [][\A dev \in Devices : Probe(dev) =>
            /\ (~device_claimed /\ SupportedIdentity(dev)) =>
                 (ret'.val = "ctx" /\ device_claimed' /\ dev \in driver_ctx')
            /\ (driver_ctx # {}) =>
                 (ret'.val = "NULL" /\ UNCHANGED <<ctx_vars, driver_ctx>>)]_vars
    /\ [](Cardinality(driver_ctx) <= 1)

\* C1 witness: a supported identity was probed while another probe's claim
\* was still held, and was turned away.
C1_Witness ==
    /\ ret.fn = "probe" /\ ret.val = "NULL" /\ SupportedIdentity(ret.dev)
    /\ device_claimed /\ driver_ctx # {}

\* C2 (match predicate): on the unclaimed singleton probe returns the
\* context exactly for vendor 0x8086 with device 0x3a32 or 0x9ca4; every
\* other identity gets NULL and device_claimed stays false.
C2_ProbeMatch ==
    [][\A dev \in Devices : (Probe(dev) /\ ~device_claimed) =>
          /\ (ret'.val = "ctx") <=> SupportedIdentity(dev)
          /\ ~SupportedIdentity(dev) =>
               (ret'.val = "NULL" /\ ~device_claimed' /\ driver_ctx' = {})]_vars

\* C2 witness: an unsupported device id of vendor 0x8086 was probed on the
\* unclaimed singleton and turned away.
C2_Witness ==
    /\ ret.fn = "probe" /\ ret.val = "NULL" /\ ~device_claimed
    /\ ret.dev.vendor_id = INTEL_VID /\ ~SupportedIdentity(ret.dev)

\* C3 (lifecycle round trip): after probe granted, startup succeeded,
\* shutdown and release, the singleton is back in its initial state
\* (device_claimed false, regs and aspace NULL), and the next probe of the
\* same identity is granted.
C3_LifecycleRoundTrip ==
    /\ life = 4 => (~device_claimed /\ regs = "NULL" /\ aspace = "NULL")
    /\ life = 5 =>
         (ret = [fn |-> "probe", dev |-> life_dev, val |-> "ctx"]
          /\ device_claimed)

\* C3 witness: the whole round trip ran and the same device was probed again.
C3_Witness == life = 5

\* C4 (startup failure unwinds): whenever startup returns a failure status,
\* regs and aspace are NULL, no mapping is outstanding, the IRQ mode is
\* disabled and device_claimed is still true.
C4_StartupFailureUnwinds ==
    [][(pc # "idle" /\ pc' = "idle" /\ ret'.fn = "startup"
        /\ ret'.val # "NO_ERROR") =>
          (regs' = "NULL" /\ aspace' = "NULL" /\ mapped' = 0
           /\ irq_mode' = "DISABLED" /\ device_claimed')]_vars

\* C4 witness: startup has just returned a failure after the register
\* window had been mapped (MMIO decode was enabled on the way).
C4_Witness ==
    /\ pc = "idle" /\ ret.fn = "startup" /\ ret.val # "NO_ERROR"
    /\ td_prev /\ mmio /\ device_claimed

\* C5 (clamp law): startup's threshold step leaves a stored threshold that
\* decoded to 113 or more decoding to exactly 113, and leaves a stored
\* threshold that decoded to less than 113 as it was.
C5_ClampLaw ==
    [][StartupCtt =>
         /\ decode_temp(CttField(ctt)) >= 113 =>
              decode_temp(CttField(ctt')) = 113
         /\ decode_temp(CttField(ctt)) < 113 => ctt' = ctt]_vars

\* C5 witness: the threshold step has just run on a stored threshold of
\* 120 degrees and has left 113 degrees (raw 326) behind.
C5_Witness == pc = "s_tsc" /\ current_ctt = 120 /\ ctt = 326

\* C6 (teardown idempotence): a teardown that directly follows a teardown
\* writes no register, unmaps nothing, does not fault and leaves the
\* singleton, the hardware registers and the bus resources as they were.
C6_TeardownIdempotent ==
    /\ [][(td_prev /\ pc \in CleanupPcs) =>
            (UNCHANGED <<ctx_vars, hw_vars, bus_vars, driver_ctx>>
             /\ pc' \in {pc, "c_aspace", "c_regs", "idle"})]_vars
    /\ [](td_prev /\ pc \in CleanupPcs =>
            regs = "NULL" /\ aspace = "NULL" /\ mapped = 0)

\* C6 witness: the second of two teardowns in a row is at its last statement.
C6_Witness == td_prev /\ pc = "c_regs" /\ caller = "shutdown"

\* C7 (ownership of device_claimed): device_claimed goes from false to true
\* only in a step of probe and from true to false only in a step of release,
\* and it is true for as long as a granted probe has not been released.
C7_ClaimedOwnership ==
    /\ [][(~device_claimed /\ device_claimed') =>
            (\E dev \in Devices : Probe(dev))]_vars
    /\ [][(device_claimed /\ ~device_claimed') =>
            (\E dev \in Devices : Release(dev))]_vars
    /\ [](driver_ctx # {} => device_claimed)

\* C7 witness: a startup has mapped the registers, shutdown has returned
\* since, and the device is still claimed.
C7_Witness ==
    /\ device_claimed /\ pc = "idle" /\ ret.fn = "shutdown" /\ td_prev
    /\ mmio

\* C8 as stated (I1 in every state, between the steps too): regs is
\* non-NULL if and only if the window is mapped and the sensor-enable bit
\* is set.
C8_I1EveryState == (regs # "NULL") <=> (mapped > 0 /\ Bit0(tsel))

\* C8 amended: I1 holds whenever no startup or teardown is in progress;
\* inside startup regs is stored after the mapping and one step before the
\* sensor-enable bit is set, inside teardown regs stays non-NULL until the
\* bit is cleared and the window unmapped.
C8_I1AtRest ==
    /\ pc \in {"idle", "fault"} =>
         ((regs # "NULL") <=> (mapped > 0 /\ Bit0(tsel)))
    /\ (regs # "NULL" /\ pc \notin {"c_aspace", "c_regs"}) => mapped > 0
    /\ (regs # "NULL" /\ pc \notin {"s_tsel", "c_unmap", "c_aspace", "c_regs"})
         => Bit0(tsel)
    /\ (mapped > 0 /\ pc \notin {"s_mmio", "s_store"}) => regs # "NULL"

\* C8 witness: startup has returned success, regs is stored.
C8_Witness == pc = "idle" /\ regs # "NULL" /\ ret.fn = "startup"

\* C9 (teardown order): in every teardown the IRQ mode is disabled before
\* the sensor-enable bit is cleared, the bit is cleared before the window is
\* unmapped, the window is unmapped before aspace and regs are set to NULL,
\* and no register is written after the unmap.
C9_TeardownOrder ==
    /\ [][CleanupTsel => (irq_mode = "DISABLED" /\ mapped > 0)]_vars
    /\ [][CleanupUnmap => (irq_mode = "DISABLED" /\ ~Bit0(tsel)
                           /\ regs # "NULL" /\ aspace # "NULL")]_vars
    /\ [][(CleanupAspace \/ CleanupRegs) =>
            (mapped = 0 /\ irq_mode = "DISABLED" /\ UNCHANGED hw_vars)]_vars
    /\ [][(pc = "c_regs") => (aspace = "NULL")]_vars

\* C9 witness: a teardown run by a failed startup is about to unmap.
C9_Witness == pc = "c_unmap" /\ caller = "startup"

\* C10 (codec round trip): for every degree value the 9-bit field can hold,
\* decode_temp(encode_temp(d)) = d and encode_temp(d) fits in 9 bits.
C10_CodecRoundTrip ==
    (temp >= decode_temp(0) /\ temp <= decode_temp(511)) =>
        /\ raw # <<>> => (raw[1] >= 0 /\ raw[1] <= 511)
        /\ back # <<>> => back[1] = temp

\* C10 witness: the highest degree of the range went through both ways.
C10_Witness == temp = 205 /\ back = <<205>> /\ raw = <<510>>

\* The device has no first memory-mapped region, or one of size zero.
MissingRegion(b) == ~b.present \/ b.size = SizeZero

\* C11 (missing register region): when the first memory-mapped region does
\* not exist or has size zero, startup does not fault and does not go on to
\* configure interrupts or to map: it heads for its failure return (cleanup,
\* then a status other than NO_ERROR) straight from its entry.
C11_MissingRegionFails ==
    [][\A dev \in Devices :
         (StartupEntry(dev, BarInfos) /\ regs = "NULL"
          /\ MissingRegion(bar_info')) =>
            (pc' = "s_finished" /\ status' # "NO_ERROR")]_vars

\* Everything but the handler's own return value: the singleton, the
\* hardware registers, the bus state and the position of the driver.
NotHandlerState ==
    <<ctx_vars, hw_vars, bus_vars, driver_ctx, arch_bits, pc, caller,
      local_vars, ret, td_prev, life, life_dev, fw_state>>

\* C12 (stateless interrupt handler): an invocation of the handler at any
\* point, between any two steps of startup or of teardown included, returns
\* "no action taken" and changes neither the singleton nor any hardware
\* register nor the position of the call it interrupts, so a lifecycle run
\* goes on from the very state it would have been in without the invocation.
C12_HandlerStateless ==
    [][IrqHandler =>
         (irq_ret' = "PCIE_IRQRET_NO_ACTION" /\ UNCHANGED NotHandlerState)]_vars

\* C12 witness: the handler has just run inside teardown, between the write
\* that disables the sensor and the unmapping of the register window.
C12_Witness ==
    /\ irq_ret = "PCIE_IRQRET_NO_ACTION"
    /\ pc = "c_unmap"
    /\ regs # "NULL"

\* The steps of startup in the order of the code, then its exit.
StartupOrder ==
    <<"s_irq_mode", "s_register", "s_validate", "s_map", "s_mmio", "s_store",
      "s_tsel", "s_ctt", "s_tsc", "s_unmask", "s_finished">>

StartupStepPcs == {StartupOrder[i] : i \in 1..10}

StepIndex(p) == CHOOSE i \in 1..11 : StartupOrder[i] = p

\* C13 (startup step gating): startup's steps run in the fixed order IRQ
\* mode, handler registration, range validation, mapping, MMIO enable, store
\* of regs, sensor enable, threshold clamp, trip-action enable, IRQ unmask,
\* and each effect occurs at its own step only; a step that fails has no
\* effect and is followed by no later step, only by the exit and cleanup; the
\* status startup returns is the one the failing step set.
C13_StepGating ==
    /\ [][(pc \in StartupStepPcs) =>
            pc' \in {pc, StartupOrder[StepIndex(pc) + 1], "s_finished"}]_vars
    /\ [][(pc \in StartupStepPcs /\ status' # "NO_ERROR") =>
            (pc' = "s_finished" /\ ctx_vars' = ctx_vars
             /\ hw_vars' = hw_vars /\ bus_vars' = bus_vars)]_vars
    /\ [](status # "NO_ERROR" => pc \in {"s_finished"} \cup CleanupPcs)
    /\ [][/\ (irq_mode' = "LEGACY" /\ irq_mode # "LEGACY") => pc = "s_irq_mode"
          /\ (irq_handler' # irq_handler) => pc = "s_register"
          /\ (mapped' > mapped) => pc = "s_map"
          /\ (mmio' # mmio) => pc = "s_mmio"
          /\ (regs' # "NULL" /\ regs = "NULL") => pc = "s_store"
          /\ (Bit0(tsel') /\ ~Bit0(tsel)) => pc = "s_tsel"
          /\ (ctt' # ctt) => pc = "s_ctt"
          /\ (tsc' # tsc) => pc = "s_tsc"
          /\ (irq_unmasked' /\ ~irq_unmasked) => pc = "s_unmask"]_vars
    /\ [][status # "NO_ERROR" =>
            \/ status' = status
            \/ (pc' = "idle" /\ ret'.fn = "startup" /\ ret'.val = status)]_vars
    /\ [][(pc = "s_finished" /\ status = "NO_ERROR" /\ pc' = "idle") =>
            (ret'.fn = "startup" /\ ret'.val = "NO_ERROR")]_vars

\* C13 witness: the IRQ mode configuration of a first startup failed; startup
\* is at its exit with that status, no handler registered, nothing mapped,
\* MMIO decode not enabled and regs not stored.
C13_Witness ==
    /\ pc = "s_finished"
    /\ status = "ERR_NOT_SUPPORTED"
    /\ irq_mode = "DISABLED"
    /\ ~irq_handler /\ mapped = 0 /\ ~mmio /\ regs = "NULL"

\* The framework protocol: startup is called on a bound device that is not
\* started (after the probe, a failed startup or a shutdown), release on a
\* bound device whose last call was a shutdown.
StartupAllowed == fw_state \in {"probed", "failed", "stopped"}

ReleaseAllowed == fw_state = "stopped"

\* C14 (entry assertions): a startup or a release the framework protocol
\* allows finds regs absent, so the checks of lines 75 and 168 pass and the
\* release clears device_claimed; a startup or a release entered with regs
\* present is a fatal fault: nothing runs after it and device_claimed stays
\* set.
C14_EntryChecks ==
    /\ [][\A dev \in Devices :
            (StartupEntry(dev, BarInfos) /\ StartupAllowed) =>
               regs = "NULL"]_vars
    /\ [][\A dev \in Devices :
            (Release(dev) /\ ReleaseAllowed) =>
               (regs = "NULL" /\ pc' = "idle" /\ ~device_claimed')]_vars
    /\ [][\A dev \in Devices :
            ((StartupEntry(dev, BarInfos) \/ Release(dev)) /\ regs # "NULL") =>
               (pc' = "fault" /\ device_claimed /\ device_claimed')]_vars
    /\ [][(pc = "fault") => (pc' = "fault" /\ device_claimed')]_vars

\* C14 witness: a startup the protocol allows was entered after an earlier
\* startup had succeeded and had been shut down, and passed the entry check.
C14_Witness ==
    /\ pc = "s_irq_mode"
    /\ fw_state = "stopped"
    /\ mmio
    /\ regs = "NULL"

\* C15 as stated (address_space present only while mapped): in every state,
\* the states inside startup included, aspace is set only if the register
\* window is mapped.
C15_AspaceOnlyWhileMapped ==
    aspace # "NULL" => mapped > 0

\* C15 (address_space at the returns): whenever no call is running, that is
\* at every return from probe, startup, shutdown and release, aspace is set
\* exactly when regs is set, and then the window is mapped; inside startup
\* aspace is set from line 82 on, before the mapping is requested, and a
\* failing startup clears it again before it returns.
C15_AspaceAtReturn ==
    /\ [](pc = "idle" =>
            /\ (aspace # "NULL") <=> (regs # "NULL")
            /\ (aspace # "NULL") => mapped > 0)
    /\ [][(aspace' # "NULL" /\ aspace = "NULL") => pc = "idle" /\ pc' # "idle"]_vars

\* C15 witness: startup has returned with aspace and regs set and the window
\* mapped.
C15_Witness ==
    /\ pc = "idle"
    /\ aspace = "kernel_aspace"
    /\ regs = "vaddr"
    /\ mapped = 1

\* C16 (successful startup): when startup returns NO_ERROR, regs and aspace
\* are set and the window is mapped, MMIO decode is enabled, bit 0 of tsel
\* and bit 0 of tsc are set, the stored threshold decodes to at most 113 and
\* interrupt line 0 is unmasked in legacy mode with the handler registered;
\* no step of startup changes any bit of tsel or tsc other than bit 0.
C16_StartupPost ==
    /\ [][(pc = "s_finished" /\ pc' = "idle") =>
            /\ ret'.fn = "startup" /\ ret'.val = "NO_ERROR"
            /\ regs' # "NULL" /\ aspace' # "NULL" /\ mapped' = 1
            /\ mmio'
            /\ Bit0(tsel') /\ Bit0(tsc')
            /\ decode_temp(CttField(ctt')) <= 113
            /\ irq_mode' = "LEGACY" /\ irq_handler' /\ irq_unmasked']_vars
    /\ [][(pc \in StartupStepPcs \cup {"idle", "s_finished"}) =>
            /\ tsel' \div 2 = tsel \div 2
            /\ tsc' \div 2 = tsc \div 2]_vars

\* C16 witness: startup has returned NO_ERROR on a controller whose tsel and
\* tsc had other bits set: these are still set, next to bit 0.
C16_Witness ==
    /\ pc = "idle"
    /\ ret.fn = "startup" /\ ret.val = "NO_ERROR"
    /\ tsel = 165 /\ tsc = 129
    /\ irq_unmasked

\* C17 (clamp-down only): over every sequence of probe, startup, shutdown
\* and release, repeated lifecycles included, no step increases the degrees
\* the stored threshold decodes to, and no step clears bit 0 of tsc once it
\* is set; the steps of teardown change nothing but bit 0 of tsel and leave
\* ctt and tsc as they are.
C17_ClampDownOnly ==
    /\ [][decode_temp(CttField(ctt')) <= decode_temp(CttField(ctt))]_vars
    /\ [][Bit0(tsc) => Bit0(tsc')]_vars
    /\ [][(pc \in CleanupPcs) =>
            /\ ctt' = ctt /\ tsc' = tsc
            /\ tsel' \in {tsel, ClearBit0(tsel)}]_vars

\* C17 witness: a startup lowered a threshold of 205 degrees to 113, set bit
\* 0 of tsc and failed at the IRQ unmask; its teardown has cleared bit 0 of
\* tsel and has left ctt and tsc alone.
C17_Witness ==
    /\ pc = "c_aspace" /\ caller = "startup"
    /\ current_ctt = 205 /\ ctt = 326
    /\ tsc = 1 /\ tsel = 0
    /\ mapped = 0

\* a >= b on 64-bit values held as four 16-bit limbs, least significant first
U64Geq(a, b) ==
    \/ a = b
    \/ \E i \in 1..4 : a[i] > b[i] /\ \A j \in (i + 1)..4 : a[j] = b[j]

\* C18 (address-range validation): every mapping request startup issues has
\* a size that is a multiple of the page size and at least the size the
\* region reported, with bus address and size within the platform's width;
\* for a region whose bus address or rounded size does not fit, startup
\* fails with ERR_INVALID_ARGS and requests no mapping.
C18_MappingRequest ==
    /\ [](pc = "s_map" =>
            /\ size[1] % PAGE_SIZE = 0
            /\ U64Geq(size, bar_info.size)
            /\ ~ExceedsMax(bar_info.bus_addr, arch_bits)
            /\ ~ExceedsMax(size, arch_bits))
    /\ [][(pc = "s_validate" /\ pc' # pc
           /\ (ExceedsMax(bar_info.bus_addr, arch_bits)
               \/ ExceedsMax(size', arch_bits))) =>
            (status' = "ERR_INVALID_ARGS" /\ pc' = "s_finished")]_vars

\* C19 (mapping released exactly once): at most one mapping is outstanding
\* at any time and a mapping is requested only when none is; once startup
\* has stored it, an outstanding mapping is the one regs points to; teardown
\* requests an unmap only when a mapping is outstanding, and that releases
\* it; every teardown returns with no mapping outstanding, and so does every
\* release.
C19_MappingReleasedOnce ==
    /\ [](mapped <= 1)
    /\ [](mapped = 1 => (regs # "NULL" \/ pc \in {"s_mmio", "s_store"}))
    /\ [](fw_state = "unbound" => mapped = 0)
    /\ [][(mapped' > mapped) => mapped = 0]_vars
    /\ [][(pc = "c_unmap" /\ pc' # pc) => (mapped = 1 /\ mapped' = 0)]_vars
    /\ [][(mapped' < mapped) => pc = "c_unmap"]_vars
    /\ [][(pc = "c_regs" /\ pc' = "idle") => mapped' = 0]_vars
    /\ [][\A dev \in Devices :
            (Release(dev) /\ pc' = "idle") => mapped' = 0]_vars

\* C19 witness: the device has been released after a lifecycle in which the
\* register window had been mapped, and no mapping is outstanding.
C19_Witness ==
    /\ pc = "idle"
    /\ ret.fn = "release"
    /\ fw_state = "unbound"
    /\ mmio
    /\ mapped = 0

\* C20 (interrupts only on a configured sensor): in every state interrupt
\* line 0 is unmasked only if regs is set and bit 0 of tsel and bit 0 of tsc
\* are set, the unmask being the last step of startup; a teardown that
\* modifies a register, unmaps the window or clears the singleton does so
\* with delivery already disabled, and delivery comes back only through the
\* IRQ mode step and the unmask step of a later startup.
C20_IrqOnlyConfigured ==
    /\ [](irq_unmasked =>
            (irq_mode = "LEGACY" /\ regs # "NULL" /\ Bit0(tsel) /\ Bit0(tsc)))
    /\ [][(pc \in CleanupPcs
           /\ (hw_vars' # hw_vars \/ mapped' # mapped
               \/ regs' # regs \/ aspace' # aspace)) =>
            (irq_mode = "DISABLED" /\ ~irq_unmasked)]_vars
    /\ [][(irq_mode = "DISABLED" /\ irq_mode' # "DISABLED") =>
            pc = "s_irq_mode"]_vars
    /\ [][(~irq_unmasked /\ irq_unmasked') =>
            (pc = "s_unmask" /\ pc' = "s_finished")]_vars

\* C20 witness: the shutdown of a started device has disabled interrupt
\* delivery and has not yet touched a register: the sensor is still enabled
\* and the window still mapped.
C20_Witness ==
    /\ pc = "c_tsel" /\ caller = "shutdown"
    /\ fw_state = "started"
    /\ irq_mode = "DISABLED" /\ ~irq_unmasked
    /\ regs # "NULL" /\ Bit0(tsel) /\ Bit0(tsc) /\ mapped = 1

=============================================================================
